---- MODULE Spec2Model ----
(***************************************************************************)
(* Model of mininet/topo-fattree.py: the construction of the FatTreeTopo   *)
(* graph (switches, hosts, links, port numbers) statement by statement,    *)
(* and the IPv6Host.config command sequence run against a host interface.  *)
(***************************************************************************)
EXTENDS Integers, Sequences, FiniteSets, TLC

VARIABLES
    pc,        \* position in FatTreeTopo.__init__: "switches", "hosts", "links", "built"
    i,         \* the loop variable of "for i in range(1, 21)"
    cores,     \* dict cores: index -> switch name
    aggs,      \* dict aggs:  index -> switch name
    edges,     \* dict edges: index -> switch name
    nodes,     \* the Topo graph's nodes: name -> options given to addSwitch/addHost
    links,     \* the Topo graph's links, in creation order
    ports,     \* Topo.ports: name -> number of ports allocated on that node
    stmt,      \* index of the next addHost / addLink statement
    cur,       \* the host whose config() is running or ran last
    cargs,     \* the arguments (ipv6, ipv6_gw) of the current config() call
    cpc,       \* position inside config()
    intf,      \* state of the host's default interface
    cmdlog,    \* commands issued by the current config() call, in order
    failed,    \* commands of the current call whose shell command failed
    result,    \* what the caller of config() observes
    runs,      \* number of config() calls started
    faults,    \* number of shell commands that have failed so far
    prev       \* arguments, outcome and final interface state of the call before the current one

vars == <<pc, i, cores, aggs, edges, nodes, links, ports, stmt,
          cur, cargs, cpc, intf, cmdlog, failed, result, runs, faults, prev>>

topoVars == <<pc, i, cores, aggs, edges, nodes, links, ports, stmt>>
hostVars == <<cur, cargs, cpc, intf, cmdlog, failed, result, runs, faults, prev>>

-----------------------------------------------------------------------------
(* Constants of the script *)

CPU_PORT == 255

\* range(1, 21): first value, and the value the loop stops before
RangeStart == 1

\* variant: the loop runs one iteration too far, range(1, 22)
RangeStop_plus1 == RangeStart + 21

RangeStop == 21

\* "if i <= 4", "if i > 4 and i <= 12", "if i > 12"
CoreMax == 4
AggMax == 12

StratumBmv2Switch == "StratumBmv2Switch"
IPv6Host == "IPv6Host"

\* Python's None
None == <<>>

-----------------------------------------------------------------------------
(* Textual addresses.  A MAC is its six octets.  An IPv6 literal is the     *)
(* sequence of its written 16-bit groups, with DC standing for "::", and    *)
(* the prefix length after "/" (NoLen when the literal has none).           *)

DC == -1
NoLen == -1

Addr(groups, plen) == [groups |-> groups, plen |-> plen]

\* position of "::" in the written groups, 0 if there is none
RECURSIVE DCPos(_, _)
DCPos(groups, n) ==
    IF n > Len(groups) THEN 0
    ELSE IF groups[n] = DC THEN n
    ELSE DCPos(groups, n + 1)

Zeros(n) == [j \in 1..n |-> 0]

\* the eight 16-bit groups an IPv6 literal denotes
Expand(groups) ==
    LET p == DCPos(groups, 1)
    IN  IF p = 0 THEN groups
        ELSE SubSeq(groups, 1, p - 1)
             \o Zeros(8 - (Len(groups) - 1))
             \o SubSeq(groups, p + 1, Len(groups))

\* the first 64 bits of the address
Prefix64(a) == SubSeq(Expand(a.groups), 1, 4)

\* ipv6.split('/')[0]
StripLen(a) == Addr(a.groups, NoLen)

-----------------------------------------------------------------------------
(* The statements of FatTreeTopo.__init__ *)

HostDecl(pod, letter, name, mac, ipv6, gw) ==
    [pod |-> pod, letter |-> letter, name |-> name,
     mac |-> mac, ipv6 |-> ipv6, ipv6_gw |-> gw]

\* the sixteen addHost statements, in source order
HostDecls == <<
    HostDecl(1, "a", "h1a", <<0,0,0,0,0,\H1A>>, Addr(<<\H2001,1,1,DC,\Ha>>, 64), Addr(<<\H2001,1,\HA,DC,\Hff>>, NoLen)),
    HostDecl(1, "b", "h1b", <<0,0,0,0,0,\H1B>>, Addr(<<\H2001,1,1,DC,\Hb>>, 64), Addr(<<\H2001,1,\HB,DC,\Hff>>, NoLen)),
    HostDecl(1, "c", "h1c", <<0,0,0,0,0,\H1C>>, Addr(<<\H2001,1,1,DC,\Hc>>, 64), Addr(<<\H2001,1,\HC,DC,\Hff>>, NoLen)),
    HostDecl(1, "d", "h1d", <<0,0,0,0,0,\H1D>>, Addr(<<\H2001,1,1,DC,\Hd>>, 64), Addr(<<\H2001,1,\HD,DC,\Hff>>, NoLen)),
    HostDecl(2, "a", "h2a", <<0,0,0,0,0,\H2A>>, Addr(<<\H2002,1,1,DC,\Ha>>, 64), Addr(<<\H2002,1,\HA,DC,\Hff>>, NoLen)),
    HostDecl(2, "b", "h2b", <<0,0,0,0,0,\H2B>>, Addr(<<\H2002,1,1,DC,\Hb>>, 64), Addr(<<\H2002,1,\HB,DC,\Hff>>, NoLen)),
    HostDecl(2, "c", "h2c", <<0,0,0,0,0,\H2C>>, Addr(<<\H2002,1,1,DC,\Hc>>, 64), Addr(<<\H2002,1,\HC,DC,\Hff>>, NoLen)),
    HostDecl(2, "d", "h2d", <<0,0,0,0,0,\H2D>>, Addr(<<\H2002,1,1,DC,\Hd>>, 64), Addr(<<\H2002,1,\HD,DC,\Hff>>, NoLen)),
    HostDecl(3, "a", "h3a", <<0,0,0,0,0,\H3A>>, Addr(<<\H2003,1,1,DC,\Ha>>, 64), Addr(<<\H2003,1,\HA,DC,\Hff>>, NoLen)),
    HostDecl(3, "b", "h3b", <<0,0,0,0,0,\H3B>>, Addr(<<\H2003,1,1,DC,\Hb>>, 64), Addr(<<\H2003,1,\HB,DC,\Hff>>, NoLen)),
    HostDecl(3, "c", "h3c", <<0,0,0,0,0,\H3C>>, Addr(<<\H2003,1,1,DC,\Hc>>, 64), Addr(<<\H2003,1,\HC,DC,\Hff>>, NoLen)),
    HostDecl(3, "d", "h3d", <<0,0,0,0,0,\H3D>>, Addr(<<\H2003,1,1,DC,\Hd>>, 64), Addr(<<\H2003,1,\HD,DC,\Hff>>, NoLen)),
    HostDecl(4, "a", "h4a", <<0,0,0,0,0,\H4A>>, Addr(<<\H2004,1,1,DC,\Ha>>, 64), Addr(<<\H2004,1,\HA,DC,\Hff>>, NoLen)),
    HostDecl(4, "b", "h4b", <<0,0,0,0,0,\H4B>>, Addr(<<\H2004,1,1,DC,\Hb>>, 64), Addr(<<\H2004,1,\HB,DC,\Hff>>, NoLen)),
    HostDecl(4, "c", "h4c", <<0,0,0,0,0,\H4C>>, Addr(<<\H2004,1,1,DC,\Hc>>, 64), Addr(<<\H2004,1,\HC,DC,\Hff>>, NoLen)),
    HostDecl(4, "d", "h4d", <<0,0,0,0,0,\H4D>>, Addr(<<\H2004,1,1,DC,\Hd>>, 64), Addr(<<\H2004,1,\HD,DC,\Hff>>, NoLen)) >>

\* variant: h2b is declared with the MAC of h2a
HostAt_dupMac(n) ==
    IF n = 6 THEN [HostDecls[6] EXCEPT !.mac = HostDecls[5].mac] ELSE HostDecls[n]

\* the n-th addHost statement
HostAt(n) == HostDecls[n]

\* An addLink argument: <<"cores", 1>> is cores[1], <<"host", "h1a">> is the variable h1a
C(n) == <<"cores", n>>
A(n) == <<"aggs", n>>
E(n) == <<"edges", n>>
H(name) == <<"host", name>>

\* the forty-eight addLink statements, in source order
LinkCalls == <<
    <<C(1), A(1)>>, <<C(1), A(3)>>, <<C(1), A(5)>>, <<C(1), A(7)>>,
    <<C(2), A(1)>>, <<C(2), A(3)>>, <<C(2), A(5)>>, <<C(2), A(7)>>,
    <<C(3), A(2)>>, <<C(3), A(4)>>, <<C(3), A(6)>>, <<C(3), A(8)>>,
    <<C(4), A(2)>>, <<C(4), A(4)>>, <<C(4), A(6)>>, <<C(4), A(8)>>,
    <<A(1), E(1)>>, <<A(1), E(2)>>, <<A(2), E(1)>>, <<A(2), E(2)>>,
    <<A(3), E(3)>>, <<A(3), E(4)>>, <<A(4), E(3)>>, <<A(4), E(4)>>,
    <<A(5), E(5)>>, <<A(5), E(6)>>, <<A(6), E(5)>>, <<A(6), E(6)>>,
    <<A(7), E(7)>>, <<A(7), E(8)>>, <<A(8), E(7)>>, <<A(8), E(8)>>,
    <<E(1), H("h1a")>>, <<E(1), H("h1b")>>, <<E(2), H("h1c")>>, <<E(2), H("h1d")>>,
    <<E(3), H("h2a")>>, <<E(3), H("h2b")>>, <<E(4), H("h2c")>>, <<E(4), H("h2d")>>,
    <<E(5), H("h3a")>>, <<E(5), H("h3b")>>, <<E(6), H("h3c")>>, <<E(6), H("h3d")>>,
    <<E(7), H("h4a")>>, <<E(7), H("h4b")>>, <<E(8), H("h4c")>>, <<E(8), H("h4d")>>
>>

\* variant: h1b is attached to edges[2] instead of edges[1]
LinkAt_wrongEdge(n) == IF n = 34 THEN <<E(2), H("h1b")>> ELSE LinkCalls[n]

\* variant: cores[3] is wired to aggs[1] instead of aggs[2]
LinkAt_wrongGroup(n) == IF n = 9 THEN <<C(3), A(1)>> ELSE LinkCalls[n]

\* variant: aggs[2] is wired to edges[3], an edge switch of the next pod
LinkAt_crossPod(n) == IF n = 20 THEN <<A(2), E(3)>> ELSE LinkCalls[n]

\* the n-th addLink statement
LinkAt(n) == LinkCalls[n]

-----------------------------------------------------------------------------
(* Switch creation: the loop body of "for i in range(1, 21)" *)

\* which of the three ifs of the loop body is taken for i
Tier(n) ==
    IF n <= CoreMax THEN "core"
    ELSE IF n > CoreMax /\ n <= AggMax THEN "agg"
    ELSE "edge"

\* 's%s_core%s' % (i, i), 's%s_agg%s' % (i, i-4), 's%s_edge%s' % (i, i-12)
SwitchName(n) ==
    CASE Tier(n) = "core" -> "s" \o ToString(n) \o "_core" \o ToString(n)
      [] Tier(n) = "agg"  -> "s" \o ToString(n) \o "_agg" \o ToString(n - CoreMax)
      [] Tier(n) = "edge" -> "s" \o ToString(n) \o "_edge" \o ToString(n - AggMax)

\* variant: the switches are created with cpuport=1, the first data-plane port
SwitchOpts_port1 == [isSwitch |-> TRUE, cls |-> StratumBmv2Switch, cpuport |-> 1]

SwitchOpts == [isSwitch |-> TRUE, cls |-> StratumBmv2Switch, cpuport |-> CPU_PORT]

\* dict assignment d[k] = v
Put(d, k, v) == [x \in (DOMAIN d) \cup {k} |-> IF x = k THEN v ELSE d[x]]

\* Topo.addSwitch / Topo.addHost: the graph keeps one entry per name
AddNode(name, opts) == nodes' = Put(nodes, name, opts)

AddSwitch ==
    /\ pc = "switches"
    /\ i < RangeStop
    /\ AddNode(SwitchName(i), SwitchOpts)
    /\ cores' = IF Tier(i) = "core" THEN Put(cores, i, SwitchName(i)) ELSE cores
    /\ aggs'  = IF Tier(i) = "agg" THEN Put(aggs, i - CoreMax, SwitchName(i)) ELSE aggs
    /\ edges' = IF Tier(i) = "edge" THEN Put(edges, i - AggMax, SwitchName(i)) ELSE edges
    /\ i' = i + 1
    /\ pc' = IF i + 1 < RangeStop THEN "switches" ELSE "hosts"
    /\ UNCHANGED <<links, ports, stmt>>
    /\ UNCHANGED hostVars

-----------------------------------------------------------------------------
(* Host creation: one addHost statement *)

HostOpts(d) ==
    [isSwitch |-> FALSE, cls |-> IPv6Host, mac |-> d.mac,
     ipv6 |-> d.ipv6, ipv6_gw |-> d.ipv6_gw]

AddHost ==
    /\ pc = "hosts"
    /\ AddNode(HostAt(stmt).name, HostOpts(HostAt(stmt)))
    /\ IF stmt < Len(HostDecls)
       THEN stmt' = stmt + 1 /\ pc' = "hosts"
       ELSE stmt' = 1 /\ pc' = "links"
    /\ UNCHANGED <<i, cores, aggs, edges, links, ports>>
    /\ UNCHANGED hostVars

-----------------------------------------------------------------------------
(* Link creation: one addLink statement *)

\* the node an addLink argument evaluates to
Deref(ref) ==
    CASE ref[1] = "cores" -> cores[ref[2]]
      [] ref[1] = "aggs"  -> aggs[ref[2]]
      [] ref[1] = "edges" -> edges[ref[2]]
      [] ref[1] = "host"  -> ref[2]

PortsUsed(n) == IF n \in DOMAIN ports THEN ports[n] ELSE 0

\* addLink is given no port numbers, so Mininet's Topo numbers the ports of a
\* node in link-creation order: a switch's from 1, a host's from 0
NextPort(n) == PortsUsed(n) + (IF nodes[n].isSwitch THEN 1 ELSE 0)

AddLink ==
    /\ pc = "links"
    /\ LET n1 == Deref(LinkAt(stmt)[1])
           n2 == Deref(LinkAt(stmt)[2])
       IN  /\ links' = Append(links, [node1 |-> n1, node2 |-> n2,
                                      port1 |-> NextPort(n1), port2 |-> NextPort(n2)])
           /\ ports' = Put(Put(ports, n1, PortsUsed(n1) + 1), n2, PortsUsed(n2) + 1)
    /\ IF stmt < Len(LinkCalls)
       THEN stmt' = stmt + 1 /\ pc' = "links"
       ELSE stmt' = stmt /\ pc' = "built"
    /\ UNCHANGED <<i, cores, aggs, edges, nodes>>
    /\ UNCHANGED hostVars

-----------------------------------------------------------------------------
(* IPv6Host.config, one shell command per step *)

\* number of config() calls the driver makes on the host it brings up
MaxRuns == 2

\* number of shell commands that may fail over all the calls followed
MaxFaults == 2

Features == {"rx", "tx", "sg"}

\* a fresh interface: no addresses, no default route, offload features on
FreshIntf ==
    [mac |-> None, addrs4 |-> {}, addrs6 |-> {}, route |-> None,
     offload |-> Features, updateIP |-> None]

\* the address Mininet gives the host through ip= in Host.config(**params)
AutoIPv4 == "10.0.0.x/8"

\* the shell commands of config(), by the name used in cpc and cmdlog
Commands == <<"flush4", "flush6", "addr", "route", "off_rx", "off_tx", "off_sg">>

\* variant: the ethtool commands flip the offload feature instead of switching it off
Effect_toggle(c, f, args) ==
    LET Flip(a) == [f EXCEPT !.offload = IF a \in @ THEN @ \ {a} ELSE @ \cup {a}]
    IN  CASE c = "flush4" -> [f EXCEPT !.addrs4 = {}]
          [] c = "flush6" -> [f EXCEPT !.addrs6 = {}]
          [] c = "addr"   -> [f EXCEPT !.addrs6 = @ \cup {args.ipv6}]
          [] c = "route"  -> [f EXCEPT !.route = args.ipv6_gw]
          [] c = "off_rx" -> Flip("rx")
          [] c = "off_tx" -> Flip("tx")
          [] c = "off_sg" -> Flip("sg")

\* what a command does to the interface when it succeeds, as the command
\* line says: "ip -4 addr flush dev", "ip -6 addr flush dev", "ip -6 addr add
\* <ipv6> dev", "ip -6 route add default via <ipv6_gw>", "ethtool --offload
\* <dev> rx|tx|sg off".  A command that fails changes nothing.
Effect(c, f, args) ==
    CASE c = "flush4" -> [f EXCEPT !.addrs4 = {}]
      [] c = "flush6" -> [f EXCEPT !.addrs6 = {}]
      [] c = "addr"   -> [f EXCEPT !.addrs6 = @ \cup {args.ipv6}]
      [] c = "route"  -> [f EXCEPT !.route = args.ipv6_gw]
      [] c = "off_rx" -> [f EXCEPT !.offload = @ \ {"rx"}]
      [] c = "off_tx" -> [f EXCEPT !.offload = @ \ {"tx"}]
      [] c = "off_sg" -> [f EXCEPT !.offload = @ \ {"sg"}]

\* variant: the default route is installed before the address is assigned
NextPc_routeFirst(p, args) ==
    CASE p = "super"  -> "flush4"
      [] p = "flush4" -> "flush6"
      [] p = "flush6" -> IF args.ipv6_gw # None THEN "route" ELSE "addr"
      [] p = "route"  -> "addr"
      [] p = "addr"   -> "off_rx"
      [] p = "off_rx" -> "off_tx"
      [] p = "off_tx" -> "off_sg"
      [] p = "off_sg" -> "updateIP"
      [] p = "updateIP" -> "return"

\* the statement config() executes after the one at position p
NextPc(p, args) ==
    CASE p = "super"  -> "flush4"
      [] p = "flush4" -> "flush6"
      [] p = "flush6" -> "addr"
      [] p = "addr"   -> IF args.ipv6_gw # None THEN "route" ELSE "off_rx"
      [] p = "route"  -> "off_rx"
      [] p = "off_rx" -> "off_tx"
      [] p = "off_tx" -> "off_sg"
      [] p = "off_sg" -> "updateIP"
      [] p = "updateIP" -> "return"

IsCommand(p) == \E n \in 1..Len(Commands) : Commands[n] = p

\* the nodes created by addHost
Hosts == {n \in DOMAIN nodes : ~nodes[n].isSwitch}

\* The driver calls h.config(**params) on a host of the built topology with the
\* ipv6 the topology holds for it; ipv6_gw is the one the topology holds, or
\* None, the parameter's default.  Configuring one host touches no state of
\* another, so the calls followed are those on one host, chosen arbitrarily.
ConfigStart(h, gw) ==
    /\ pc = "built"
    /\ cpc = "idle"
    /\ runs < MaxRuns
    /\ IF runs = 0 THEN TRUE ELSE h = cur
    /\ cur' = h
    /\ cargs' = [ipv6 |-> nodes[h].ipv6, ipv6_gw |-> gw]
    /\ cpc' = "super"
    /\ runs' = runs + 1
    /\ result' = "running"
    /\ prev' = IF runs = 0 THEN None
               ELSE [args |-> cargs, failed |-> failed, cmdlog |-> cmdlog,
                     result |-> result, intf |-> intf]
    /\ cmdlog' = <<>>
    /\ failed' = {}
    /\ UNCHANGED <<intf, faults>>
    /\ UNCHANGED topoVars

\* net.start(): a host of the topology is configured
Configure ==
    \E h \in Hosts : \E gw \in {nodes[h].ipv6_gw, None} : ConfigStart(h, gw)

\* super(IPv6Host, self).config(**params): Mininet sets the MAC and an IPv4 address
SuperConfig ==
    /\ cpc = "super"
    /\ intf' = [intf EXCEPT !.mac = nodes[cur].mac, !.addrs4 = {AutoIPv4}]
    /\ cpc' = NextPc(cpc, cargs)
    /\ UNCHANGED <<cur, cargs, cmdlog, failed, result, runs, faults, prev>>
    /\ UNCHANGED topoVars

\* self.cmd(...): the command runs and succeeds or fails; config() does not
\* look at the outcome and goes on to the next statement
Cmd(ok) ==
    /\ IsCommand(cpc)
    /\ ok \/ faults < MaxFaults
    /\ faults' = IF ok THEN faults ELSE faults + 1
    /\ intf' = IF ok THEN Effect(cpc, intf, cargs) ELSE intf
    /\ cmdlog' = Append(cmdlog, cpc)
    /\ failed' = IF ok THEN failed ELSE failed \cup {cpc}
    /\ cpc' = NextPc(cpc, cargs)
    /\ UNCHANGED <<cur, cargs, result, runs, prev>>
    /\ UNCHANGED topoVars

\* self.defaultIntf().updateIP = updateIP, which returns ipv6.split('/')[0]
SetUpdateIP ==
    /\ cpc = "updateIP"
    /\ intf' = [intf EXCEPT !.updateIP = StripLen(cargs.ipv6)]
    /\ cpc' = NextPc(cpc, cargs)
    /\ UNCHANGED <<cur, cargs, cmdlog, failed, result, runs, faults, prev>>
    /\ UNCHANGED topoVars

\* config() returns normally: the caller sees no error
ConfigReturn ==
    /\ cpc = "return"
    /\ cpc' = "idle"
    /\ result' = "Ready"
    /\ UNCHANGED <<cur, cargs, intf, cmdlog, failed, runs, faults, prev>>
    /\ UNCHANGED topoVars

-----------------------------------------------------------------------------

Init ==
    /\ pc = "switches"
    /\ i = RangeStart
    /\ cores = <<>>
    /\ aggs = <<>>
    /\ edges = <<>>
    /\ nodes = <<>>
    /\ links = <<>>
    /\ ports = <<>>
    /\ stmt = 1
    /\ cur = None
    /\ cargs = None
    /\ cpc = "idle"
    /\ intf = FreshIntf
    /\ cmdlog = <<>>
    /\ failed = {}
    /\ result = "none"
    /\ runs = 0
    /\ faults = 0
    /\ prev = None

Next ==
    \/ AddSwitch
    \/ AddHost
    \/ AddLink
    \/ Configure
    \/ SuperConfig
    \/ \E ok \in BOOLEAN : Cmd(ok)
    \/ SetUpdateIP
    \/ ConfigReturn

Spec == Init /\ [][Next]_vars

-----------------------------------------------------------------------------
(* The finished graph *)

\* FatTreeTopo.__init__ has returned and no host has been configured yet.
\* The graph never changes afterwards (see GraphFrozen), so the properties
\* of the finished graph are examined in this state.
Constructed == pc = "built" /\ runs = 0

GraphFrozen == [][pc = "built" => UNCHANGED topoVars]_vars

Range(d) == {d[k] : k \in DOMAIN d}

CoreSwitches == {n \in DOMAIN nodes : nodes[n].isSwitch /\ n \in Range(cores)}
AggSwitches  == {n \in DOMAIN nodes : nodes[n].isSwitch /\ n \in Range(aggs)}
EdgeSwitches == {n \in DOMAIN nodes : nodes[n].isSwitch /\ n \in Range(edges)}

LinkSet == {links[k] : k \in DOMAIN links}

\* indices of the links with an endpoint at n
LinksAt(n) == {k \in DOMAIN links : links[k].node1 = n \/ links[k].node2 = n}

Neighbors(n) ==
    {l.node2 : l \in {x \in LinkSet : x.node1 = n}}
    \cup {l.node1 : l \in {x \in LinkSet : x.node2 = n}}

\* pod of the aggregation or edge switch with index j: two per pod
PodOfIndex(j) == (j + 1) \div 2

\* position of that switch inside its pod, 1 or 2
PosInPod(j) == j - 2 * (PodOfIndex(j) - 1)

\* group of core switch c: cores 1,2 are group 1, cores 3,4 are group 2
GroupOfCore(c) == (c + 1) \div 2

IndexIn(d, n) == CHOOSE k \in DOMAIN d : d[k] = n

\* pod of a host: the pod its addHost statement is written under
PodOfHost(h) == HostDecls[CHOOSE n \in 1..Len(HostDecls) : HostDecls[n].name = h].pod

\* pod of a node that is not a core switch
PodOfNode(n) ==
    IF n \in AggSwitches THEN PodOfIndex(IndexIn(aggs, n))
    ELSE IF n \in EdgeSwitches THEN PodOfIndex(IndexIn(edges, n))
    ELSE PodOfHost(n)

\* nodes reachable from the frontier along links without entering a core switch
RECURSIVE ReachNoCore(_, _)
ReachNoCore(seen, frontier) ==
    IF frontier = {} THEN seen
    ELSE LET new == ((UNION {Neighbors(n) : n \in frontier}) \ CoreSwitches) \ seen
         IN  ReachNoCore(seen \cup new, new)

-----------------------------------------------------------------------------
(* C1 *)

\* C1 as stated: the finished topology has exactly 4 core, 4 aggregation and
\* 4 edge switches and 8 hosts.
C1_CountsAsStated ==
    Constructed =>
        /\ Cardinality(CoreSwitches) = 4
        /\ Cardinality(AggSwitches) = 4
        /\ Cardinality(EdgeSwitches) = 4
        /\ Cardinality(Hosts) = 8

\* C1 amended: the finished topology has exactly 4 core switches, 8 aggregation
\* switches, 8 edge switches and 16 hosts, and no other node.
C1_Counts ==
    Constructed =>
        /\ Cardinality(CoreSwitches) = 4
        /\ Cardinality(AggSwitches) = 8
        /\ Cardinality(EdgeSwitches) = 8
        /\ Cardinality(Hosts) = 16
        /\ Cardinality(DOMAIN nodes) = 36

C1_Witness ==
    /\ Constructed
    /\ "s4_core4" \in CoreSwitches
    /\ "s12_agg8" \in AggSwitches
    /\ "s20_edge8" \in EdgeSwitches
    /\ "h4d" \in Hosts

-----------------------------------------------------------------------------
(* C2 *)

\* C2: in the finished graph every edge switch has exactly 2 host neighbours and
\* 2 aggregation neighbours, every aggregation switch exactly 2 edge and 2 core
\* neighbours, every core switch exactly 4 aggregation neighbours, and no
\* switch has any other link.
C2_Degrees ==
    Constructed =>
        /\ \A e \in EdgeSwitches :
              /\ Cardinality(Neighbors(e) \cap Hosts) = 2
              /\ Cardinality(Neighbors(e) \cap AggSwitches) = 2
              /\ Cardinality(LinksAt(e)) = 4
        /\ \A a \in AggSwitches :
              /\ Cardinality(Neighbors(a) \cap EdgeSwitches) = 2
              /\ Cardinality(Neighbors(a) \cap CoreSwitches) = 2
              /\ Cardinality(LinksAt(a)) = 4
        /\ \A c \in CoreSwitches :
              /\ Cardinality(Neighbors(c) \cap AggSwitches) = 4
              /\ Cardinality(LinksAt(c)) = 4

C2_Witness ==
    /\ Constructed
    /\ Len(links) = Len(LinkCalls)
    /\ Neighbors("s13_edge1") = {"s5_agg1", "s6_agg2", "h1a", "h1b"}

-----------------------------------------------------------------------------
(* C3 *)

\* C3: while and after the hosts are created, no two distinct hosts share a MAC
\* or an IPv6 address; and once all are created, distinct addHost statements
\* have distinct (pod, letter) pairs and distinct names, and each name holds
\* exactly the (MAC, IPv6, gateway) of its own statement.
C3_Injective ==
    runs = 0 =>
        /\ \A h1, h2 \in Hosts :
              h1 # h2 =>
                 /\ nodes[h1].mac # nodes[h2].mac
                 /\ Expand(nodes[h1].ipv6.groups) # Expand(nodes[h2].ipv6.groups)
        /\ pc \in {"links", "built"} =>
              /\ \A m, n \in 1..Len(HostDecls) :
                    m # n =>
                       /\ <<HostAt(m).pod, HostAt(m).letter>> # <<HostAt(n).pod, HostAt(n).letter>>
                       /\ HostAt(m).name # HostAt(n).name
              /\ \A n \in 1..Len(HostDecls) :
                    /\ HostAt(n).name \in Hosts
                    /\ nodes[HostAt(n).name] = HostOpts(HostAt(n))

C3_Witness ==
    /\ pc = "links"
    /\ stmt = 1
    /\ Cardinality(Hosts) = Len(HostDecls)
    /\ Cardinality({nodes[h].mac : h \in Hosts}) = Len(HostDecls)

-----------------------------------------------------------------------------
(* C4 *)

\* C4: every host with a gateway has the gateway in the /64 of its own address,
\* and the gateway is the address of no host.
C4_GatewayOnLink ==
    runs = 0 =>
        \A h \in Hosts :
            nodes[h].ipv6_gw # None =>
               /\ Prefix64(nodes[h].ipv6_gw) = Prefix64(nodes[h].ipv6)
               /\ \A h2 \in Hosts :
                     Expand(nodes[h].ipv6_gw.groups) # Expand(nodes[h2].ipv6.groups)

-----------------------------------------------------------------------------
(* C5 *)

\* C5: after any prefix of the addLink statements, no link endpoint on a switch
\* uses the port number that switch was created with as its cpuport.
C5_NoCpuPort ==
    runs = 0 =>
        \A k \in DOMAIN links :
            /\ nodes[links[k].node1].isSwitch =>
                  links[k].port1 # nodes[links[k].node1].cpuport
            /\ nodes[links[k].node2].isSwitch =>
                  links[k].port2 # nodes[links[k].node2].cpuport

C5_Witness ==
    /\ pc = "links"
    /\ Len(links) = 20
    /\ \E k \in DOMAIN links : links[k].port1 = 4 /\ nodes[links[k].node1].cpuport = CPU_PORT

-----------------------------------------------------------------------------
(* C9 *)

\* C9: in the finished graph the neighbours of core switch c, of group
\* g = GroupOfCore(c), are exactly the aggregation switches at position g of
\* their pod, one in every pod.
C9_CoreGroups ==
    Constructed =>
        /\ DOMAIN cores = 1..4
        /\ \A c \in DOMAIN cores :
              /\ Neighbors(cores[c]) =
                    {aggs[j] : j \in {x \in DOMAIN aggs : PosInPod(x) = GroupOfCore(c)}}
              /\ {PodOfIndex(IndexIn(aggs, a)) : a \in Neighbors(cores[c])}
                    = {PodOfIndex(j) : j \in DOMAIN aggs}

C9_Witness ==
    /\ Constructed
    /\ Neighbors(cores[1]) = {aggs[1], aggs[3], aggs[5], aggs[7]}
    /\ Neighbors(cores[4]) = {aggs[2], aggs[4], aggs[6], aggs[8]}

-----------------------------------------------------------------------------
(* C10 *)

\* C10: in the finished graph every aggregation switch is linked to exactly the
\* edge switches of its own pod, every host has exactly one link, to an edge
\* switch of its own pod, and no node outside the core is reachable from a node
\* of another pod without passing through a core switch.
C10_PodIsolation ==
    Constructed =>
        /\ \A j \in DOMAIN aggs :
              Neighbors(aggs[j]) \cap EdgeSwitches =
                 {edges[e] : e \in {x \in DOMAIN edges : PodOfIndex(x) = PodOfIndex(j)}}
        /\ \A h \in Hosts :
              /\ Cardinality(LinksAt(h)) = 1
              /\ Neighbors(h) \subseteq EdgeSwitches
              /\ \A e \in Neighbors(h) : PodOfNode(e) = PodOfHost(h)
        /\ \A n \in (DOMAIN nodes) \ CoreSwitches :
              \A m \in ReachNoCore({n}, {n}) : PodOfNode(m) = PodOfNode(n)

C10_Witness ==
    /\ Constructed
    /\ Neighbors("h3c") = {edges[6]}
    /\ ReachNoCore({"h3c"}, {"h3c"}) =
          {"h3a", "h3b", "h3c", "h3d", edges[5], edges[6], aggs[5], aggs[6]}

-----------------------------------------------------------------------------
(* Host configuration *)

OffloadCmds == {"off_rx", "off_tx", "off_sg"}

Issued(log) == {log[k] : k \in DOMAIN log}

\* a call of config() has returned and no other has started
Returned == cpc = "idle" /\ runs > 0

\* the part of the interface state the configuration is about
FinalCfg(f) ==
    [addrs4 |-> f.addrs4, addrs6 |-> f.addrs6, route |-> f.route, offload |-> f.offload]

\* the order the configuration steps are specified in, for the given arguments
StepOrder(args) ==
    IF args.ipv6_gw # None
    THEN <<"flush4", "flush6", "addr", "route", "off_rx", "off_tx", "off_sg">>
    ELSE <<"flush4", "flush6", "addr", "off_rx", "off_tx", "off_sg">>

-----------------------------------------------------------------------------
(* C6 *)

\* C6: a call of config() whose route-install command fails issues no
\* offload-disable command, and once it has returned the caller sees a
\* configuration error at step RouteInstalled.
C6_StopsAtRouteFailure ==
    "route" \in failed =>
        /\ Issued(cmdlog) \cap OffloadCmds = {}
        /\ Returned => result = "ConfigurationError:RouteInstalled"

-----------------------------------------------------------------------------
(* C7 *)

-----------------------------------------------------------------------------
(* C8 *)

\* C8: at every point of a call of config() the commands issued so far are a
\* prefix of the specified order (flush IPv4, flush IPv6, assign, route only
\* when a gateway is given, rx, tx, sg), the command about to be issued is the
\* next one of that order, and when the call is past its last command all of
\* them have been issued.
C8_StepOrder ==
    runs > 0 =>
        /\ Len(cmdlog) <= Len(StepOrder(cargs))
        /\ cmdlog = SubSeq(StepOrder(cargs), 1, Len(cmdlog))
        /\ IsCommand(cpc) =>
              /\ Len(cmdlog) < Len(StepOrder(cargs))
              /\ cpc = StepOrder(cargs)[Len(cmdlog) + 1]
        /\ cpc = "super" => cmdlog = <<>>
        /\ cpc \in {"updateIP", "return", "idle"} => cmdlog = StepOrder(cargs)

C8_Witness ==
    /\ cpc = "return"
    /\ runs = 2
    /\ cargs.ipv6_gw = None
    /\ cmdlog = <<"flush4", "flush6", "addr", "off_rx", "off_tx", "off_sg">>
    /\ prev.args.ipv6_gw # None
    /\ prev.cmdlog = <<"flush4", "flush6", "addr", "route", "off_rx", "off_tx", "off_sg">>

====
